---------------------------- MODULE Spec2Model ----------------------------
(***************************************************************************)
(* A model of the value-source demo: ValueSourceLinearInterpolator,        *)
(* ValueSourceLinearAccumulator, the three MovingObject consumers and the  *)
(* two driver programs (main of the combined demo and main of              *)
(* ValueSourceDemo.cpp).                                                   *)
(*                                                                         *)
(* Every number of the program is a C++ float.  A float is modelled by the *)
(* integer that counts how many times 2^-27 goes into it, so 1.0f is       *)
(* 2^27 and 0.1f (which is exactly 13421773 * 2^-27) is 13421773.  Every   *)
(* arithmetic operation computes the exact result and rounds it to the     *)
(* nearest number with a 24 bit significand, ties to even, as IEEE-754     *)
(* binary32 arithmetic does when each operation is evaluated in float      *)
(* (FLT_EVAL_METHOD 0, as with SSE code generation).                       *)
(* Magnitudes stay below 16, where the integers stay below 2^31.  NaN is   *)
(* one reserved integer outside that range.                                *)
(***************************************************************************)
EXTENDS Integers, Sequences, FiniteSets, TLC

VARIABLES
    pc,          \* position of main: the line of the next statement, or the client
    prog,        \* which program runs
    time,        \* main's local `time` (NaN until it is declared; not read before)
    classic,     \* ClassicDesignDemo::MovingObject  [Position, Velocity]
    acc,         \* ValueSourceLinearAccumulator objects, by identity
    lerp,        \* ValueSourceLinearInterpolator     [Min, Max, Value, Time]
    dvsPosition, \* DynamicValueSourceDemo::MovingObject::Position
    rpPosition,  \* ReactiveProgrammingDemo::MovingObject::Position
    vsPosition,  \* ValueSourceDemo::MovingObject::Position
    alive,       \* the objects whose lifetime has begun and not ended
    out,         \* std::cout, one entry per line
    calls,       \* history: how many calls the client has made
    last,        \* history: the latest call and its arguments
    hist         \* history: what the client constructed and has done so far

vars == <<pc, prog, time, classic, acc, lerp, dvsPosition, rpPosition,
          vsPosition, alive, out, calls, last, hist>>

---------------------------------------------------------------------------
(* float arithmetic *)

Unit == 2^27

NaN == 0 - (2^30 + (2^30 - 1))

IsNaN(x) == x = NaN

Abs(x) == IF x < 0 THEN 0 - x ELSE x

\* The distance between neighbouring floats around magnitude a (a >= 0), in
\* units of 2^-27; below 2^-4 the floats are finer than the unit.
RECURSIVE UlpFrom(_, _)
UlpFrom(a, k) == IF k = 30 \/ a < 2^(k + 1) THEN 2^(k - 23) ELSE UlpFrom(a, k + 1)

Ulp(a) == IF a < 2^24 THEN 1 ELSE UlpFrom(a, 24)

\* The exact magnitude hi + lo / 2^27 (0 <= lo < 2^27) rounded to the nearest
\* float, ties to even.  A result below 2^-4 that is no multiple of 2^-27 has
\* no image in this encoding: it becomes the string "unmodelled", and any
\* arithmetic on it stops the check instead of passing for a float.
RoundMag(hi, lo) ==
    LET u == Ulp(hi)
        q == hi \div u
        r == hi % u
    IN  IF u = 1
        THEN IF lo = 0 THEN hi
             ELSE IF hi < 2^23 THEN "unmodelled"
             ELSE IF 2 * lo < Unit THEN hi
             ELSE IF 2 * lo > Unit THEN hi + 1
             ELSE hi + (hi % 2)
        ELSE IF 2 * r < u THEN q * u
             ELSE IF 2 * r > u \/ lo > 0 THEN (q + 1) * u
             ELSE IF q % 2 = 0 THEN q * u ELSE (q + 1) * u

RoundF(x) == IF x < 0 THEN 0 - RoundMag(0 - x, 0) ELSE RoundMag(x, 0)

\* The one element of a singleton.  {e(x) : x \in {a}} evaluates a once and
\* hands e its value; the float operations below take their operands so.
Only(S) == CHOOSE v \in S : TRUE

AddF(a, b) ==
    Only({ IF IsNaN(x) \/ IsNaN(y) THEN NaN ELSE RoundF(x + y) : x \in {a}, y \in {b} })

SubF(a, b) ==
    Only({ IF IsNaN(x) \/ IsNaN(y) THEN NaN ELSE RoundF(x - y) : x \in {a}, y \in {b} })

\* The exact product of two magnitudes, as <<hi, lo>>: a * b / 2^27 = hi + lo / 2^27.
\* Computed in 14 bit limbs so that no intermediate reaches 2^31.
MulParts(a, b) ==
    LET a1 == a \div 2^14
        a0 == a % 2^14
        b1 == b \div 2^14
        b0 == b % 2^14
        c1 == a1 * b0
        c2 == a0 * b1
        low == (c1 % 2^13) * 2^14 + (c2 % 2^13) * 2^14 + a0 * b0
    IN  << 2 * a1 * b1 + c1 \div 2^13 + c2 \div 2^13 + low \div Unit, low % Unit >>

MulMag(a, b) == Only({ RoundMag(p[1], p[2]) : p \in {MulParts(a, b)} })

MulF(a, b) ==
    Only({ IF IsNaN(x) \/ IsNaN(y) THEN NaN
           ELSE IF (x < 0) = (y < 0) THEN MulMag(Abs(x), Abs(y))
           ELSE 0 - MulMag(Abs(x), Abs(y)) : x \in {a}, y \in {b} })

\* a < b and a > b on floats: false as soon as one side is NaN.
LtF(a, b) == ~IsNaN(a) /\ ~IsNaN(b) /\ a < b

GtF(a, b) == ~IsNaN(a) /\ ~IsNaN(b) /\ a > b

LeF(a, b) == ~IsNaN(a) /\ ~IsNaN(b) /\ a <= b

Zero == 0 * Unit

One == 1 * Unit

---------------------------------------------------------------------------
(* ValueSourceLinearInterpolator *)

ValueSourceLinearInterpolator(min, max) ==
    [Min |-> min, Max |-> max, Value |-> min, Time |-> Zero]

LerpGetCurrentValue(self) == self.Value

\* A clamp that forgets the upper bound.
Clamp_NoUpperBound(t) == IF LtF(t, Zero) THEN Zero ELSE t

\* Time = t; if (Time < 0) Time = 0; if (Time > 1) Time = 1.
Clamp(t) ==
    Only({ IF GtF(t1, One) THEN One ELSE t1 : t1 \in {IF LtF(t, Zero) THEN Zero ELSE t} })

SetTime(self, t) ==
    Only({ [self EXCEPT !.Time = t2,
                        !.Value = AddF(self.Min, MulF(SubF(self.Max, self.Min), t2))]
           : t2 \in {Clamp(t)} })

---------------------------------------------------------------------------
(* ValueSourceLinearAccumulator *)

ValueSourceLinearAccumulator(start, velocity) ==
    [Value |-> start, Velocity |-> velocity]

AccGetCurrentValue(self) == self.Value

\* An Advance that assigns (=) where the code adds (+=).
AccAdvance_Overwrite(self, dt) ==
    [self EXCEPT !.Value = MulF(self.Velocity, dt)]

AccAdvance(self, dt) ==
    [self EXCEPT !.Value = AddF(self.Value, MulF(self.Velocity, dt))]

---------------------------------------------------------------------------
(* ClassicDesignDemo::MovingObject *)

ClassicMovingObject(start, velocity) ==
    [Position |-> start, Velocity |-> velocity]

ClassicAdvance(self, dt) ==
    [self EXCEPT !.Position = AddF(self.Position, MulF(self.Velocity, dt))]

---------------------------------------------------------------------------
(* operator<< (std::ostream &, float) with the stream's default format:    *)
(* six significant digits, trailing zeros dropped.  The text is modelled   *)
(* by the decimal it spells: [neg, mant, exp] is (-)mant * 10^(exp - 5)    *)
(* with 10^5 <= mant < 10^6; dropping the trailing zeros and choosing      *)
(* between fixed and exponent notation depend on nothing else.             *)

\* x * 10^k for the least k that brings the magnitude x (0 < x) to 1.0 or more.
RECURSIVE ScaleUp(_, _)
ScaleUp(x, e) == IF x >= Unit THEN <<x, e>> ELSE ScaleUp(x * 10, e - 1)

\* The first n decimal digits of the fraction f / 2^27, and what is left of it.
RECURSIVE FracDigits(_, _, _)
FracDigits(f, n, d) ==
    IF n = 0 THEN <<d, f>>
    ELSE FracDigits((f * 10) % Unit, n - 1, d * 10 + (f * 10) \div Unit)

\* The six digits of the scaled magnitude s[1] (1.0 <= s[1] < 16.0), rounded
\* to nearest on what follows them, with the decimal exponent.
Digits(s) ==
    Only({ Only({ Only({ IF m = 10^6 THEN <<10^5, e + 1>> ELSE <<m, e>>
                         : m \in { IF 2 * fd[2] > Unit THEN fd[1] + 1
                                   ELSE IF 2 * fd[2] = Unit THEN fd[1] + (fd[1] % 2)
                                   ELSE fd[1] } })
                  : fd \in { FracDigits(s[1] % Unit, 6 - (e - s[2]) - 1, s[1] \div Unit) } })
           : e \in { IF s[1] \div Unit >= 10 THEN s[2] + 1 ELSE s[2] } })

FormatMag(x) == Only({ Digits(s) : s \in {ScaleUp(x, 0)} })

FormatFloat(x) ==
    Only({ IF IsNaN(v) THEN [neg |-> FALSE, mant |-> 0, exp |-> 1]
           ELSE IF v = 0 THEN [neg |-> FALSE, mant |-> 0, exp |-> 0]
           ELSE Only({ [neg |-> v < 0, mant |-> f[1], exp |-> f[2]]
                       : f \in {FormatMag(Abs(v))} })
           : v \in {x} })

\* The decimal n / 10 (1 <= n < 100) as the stream spells it.
Decimal(n) ==
    IF n < 10 THEN [neg |-> FALSE, mant |-> n * 10^5, exp |-> 0 - 1]
    ELSE [neg |-> FALSE, mant |-> n * 10^4, exp |-> 0]

---------------------------------------------------------------------------
(* The consumers.  A pointer is the name of the object it points to, NULL, *)
(* or WILD: a value that is the address of nothing.                        *)

NULL == "nullptr"

WILD == "indeterminate"

\* A pointer member of a consumer that is not constructed yet.
NONE == "none"

\* An object that is not constructed yet.
Unbuilt == [built |-> FALSE]

LERP == "lerp"

MOVEMENT == "movement"

AccIds == {MOVEMENT, "movement2"}

\* ValueSource<float>::GetCurrentValue through a pointer: the virtual call
\* lands in the class of the object pointed to.
GetCurrentValue(position, accs, lrp) ==
    IF position = LERP THEN LerpGetCurrentValue(lrp)
    ELSE AccGetCurrentValue(accs[position])

\* The texts the lines of output begin with.
TickLabel == "Tick at "

ClassicLabel == "Classic object position: "

ValueLabel == "Value-source object position: "

ReactiveLabel == "Reactive programming object position: "

\* What a read through a pointer to no object may print.
Garbage == [neg |-> FALSE, mant |-> 0 - 1, exp |-> 0]

Line(label, value) == [label |-> label, text |-> FormatFloat(value)]

\* AttachPositionValueSource of the three consumers: the new value of Position.
\* An attach that does not store the pointer.
DvsAttach_NotStored(old, position) == old

DvsAttachPositionValueSource(old, position) == position

RpAttachPositionValueSource(old, position) == position

\* An attach that does not store the pointer.
VsAttach_NotStored(old, position) == old

VsAttachPositionValueSource(old, position) == position

\* An Advance that steps every accumulator, not the attached one alone.
DvsAdvance_Everything(position, accs, dt) ==
    IF position # NULL
    THEN [a \in DOMAIN accs |-> AccAdvance(accs[a], dt)]
    ELSE accs

\* DynamicValueSourceDemo::MovingObject::Advance: the accumulators afterwards.
DvsAdvance(position, accs, dt) ==
    IF position # NULL
    THEN [accs EXCEPT ![position] = AccAdvance(@, dt)]
    ELSE accs

\* A Render without the test of Position.
DvsRender_Unchecked(position, accs, lrp, o) ==
    Append(o, [label |-> ValueLabel,
               text |-> IF position = NULL THEN Garbage
                        ELSE FormatFloat(GetCurrentValue(position, accs, lrp))])

\* The Render methods: std::cout afterwards.
DvsRender(position, accs, lrp, o) ==
    IF position # NULL
    THEN Append(o, Line(ValueLabel,
                        GetCurrentValue(position, accs, lrp)))
    ELSE o

RpRender(position, accs, lrp, o) ==
    IF position # NULL
    THEN Append(o, Line(ReactiveLabel,
                        GetCurrentValue(position, accs, lrp)))
    ELSE o

VsRender(position, accs, lrp, o) ==
    Append(o, Line(ValueLabel,
                   GetCurrentValue(position, accs, lrp)))

ClassicRender(self, o) == Append(o, Line(ClassicLabel, self.Position))

---------------------------------------------------------------------------
(* The drivers.  pc names the line of the statement main executes next.    *)

\* 0.1 cut to a float instead of rounded to the nearest one.
DT_Truncated == 13421773 - 1

DT == 13421773

Four == 4 * Unit

Five == 5 * Unit

NoAccs == [a \in AccIds |-> Unbuilt]

Goto(l) == pc' = l

Idle == UNCHANGED <<calls, last, hist>>

MainInit ==
    /\ prog \in {"Demo", "ValueSourceDemo"}
    /\ pc = IF prog = "Demo" THEN "D184" ELSE "V65"
    /\ time = NaN
    /\ classic = Unbuilt
    /\ acc = NoAccs
    /\ lerp = Unbuilt
    /\ dvsPosition = NONE
    /\ rpPosition = NONE
    /\ vsPosition = NONE
    /\ alive = {}
    /\ out = <<>>
    /\ calls = 0
    /\ last = [op |-> "main"]
    /\ hist = {}

(* main of the combined demo *)

\* A loop body that renders before it advances.
DemoBody_RenderFirst(l) ==
    CASE l = "D224" -> "D225"
      [] l = "D225" -> "D235"
      [] l = "D235" -> "D236"
      [] l = "D236" -> "D237"
      [] l = "D237" -> "D228"
      [] l = "D228" -> "D229"
      [] l = "D229" -> "D232"
      [] l = "D232" -> "D221"

\* The statement that follows statement l in the body of the while loop.
DemoBody(l) ==
    CASE l = "D224" -> "D225"
      [] l = "D225" -> "D228"
      [] l = "D228" -> "D229"
      [] l = "D229" -> "D232"
      [] l = "D232" -> "D235"
      [] l = "D235" -> "D236"
      [] l = "D236" -> "D237"
      [] l = "D237" -> "D221"

D184 ==
    /\ prog = "Demo" /\ pc = "D184"
    /\ classic' = ClassicMovingObject(One, Four)
    /\ alive' = alive \cup {"classicobject"}
    /\ Goto("D199")
    /\ UNCHANGED <<prog, time, acc, lerp, dvsPosition, rpPosition, vsPosition, out>>
    /\ Idle

D199 ==
    /\ prog = "Demo" /\ pc = "D199"
    /\ dvsPosition' = NULL
    /\ alive' = alive \cup {"dvsobject"}
    /\ Goto("D200")
    /\ UNCHANGED <<prog, time, classic, acc, lerp, rpPosition, vsPosition, out>>
    /\ Idle

D200 ==
    /\ prog = "Demo" /\ pc = "D200"
    /\ acc' = [acc EXCEPT ![MOVEMENT] = ValueSourceLinearAccumulator(One, Four)]
    /\ alive' = alive \cup {MOVEMENT}
    /\ Goto("D201")
    /\ UNCHANGED <<prog, time, classic, lerp, dvsPosition, rpPosition, vsPosition, out>>
    /\ Idle

D201 ==
    /\ prog = "Demo" /\ pc = "D201"
    /\ dvsPosition' = DvsAttachPositionValueSource(dvsPosition, MOVEMENT)
    /\ Goto("D211")
    /\ UNCHANGED <<prog, time, classic, acc, lerp, rpPosition, vsPosition, alive, out>>
    /\ Idle

D211 ==
    /\ prog = "Demo" /\ pc = "D211"
    /\ rpPosition' = NULL
    /\ alive' = alive \cup {"rpobject"}
    /\ Goto("D212")
    /\ UNCHANGED <<prog, time, classic, acc, lerp, dvsPosition, vsPosition, out>>
    /\ Idle

D212 ==
    /\ prog = "Demo" /\ pc = "D212"
    /\ lerp' = ValueSourceLinearInterpolator(One, Five)
    /\ alive' = alive \cup {LERP}
    /\ Goto("D213")
    /\ UNCHANGED <<prog, time, classic, acc, dvsPosition, rpPosition, vsPosition, out>>
    /\ Idle

D213 ==
    /\ prog = "Demo" /\ pc = "D213"
    /\ rpPosition' = RpAttachPositionValueSource(rpPosition, LERP)
    /\ Goto("D220")
    /\ UNCHANGED <<prog, time, classic, acc, lerp, dvsPosition, vsPosition, alive, out>>
    /\ Idle

D220 ==
    /\ prog = "Demo" /\ pc = "D220"
    /\ time' = Zero
    /\ Goto("D221")
    /\ UNCHANGED <<prog, classic, acc, lerp, dvsPosition, rpPosition, vsPosition, alive, out>>
    /\ Idle

D221 ==
    /\ prog = "Demo" /\ pc = "D221"
    /\ Goto(IF LeF(time, One) THEN "D224" ELSE "D241")
    /\ UNCHANGED <<prog, time, classic, acc, lerp, dvsPosition, rpPosition, vsPosition,
                   alive, out>>
    /\ Idle

D224 ==
    /\ prog = "Demo" /\ pc = "D224"
    /\ time' = AddF(time, DT)
    /\ Goto(DemoBody("D224"))
    /\ UNCHANGED <<prog, classic, acc, lerp, dvsPosition, rpPosition, vsPosition, alive, out>>
    /\ Idle

D225 ==
    /\ prog = "Demo" /\ pc = "D225"
    /\ out' = Append(out, Line(TickLabel, time))
    /\ Goto(DemoBody("D225"))
    /\ UNCHANGED <<prog, time, classic, acc, lerp, dvsPosition, rpPosition, vsPosition, alive>>
    /\ Idle

D228 ==
    /\ prog = "Demo" /\ pc = "D228"
    /\ classic' = ClassicAdvance(classic, DT)
    /\ Goto(DemoBody("D228"))
    /\ UNCHANGED <<prog, time, acc, lerp, dvsPosition, rpPosition, vsPosition, alive, out>>
    /\ Idle

D229 ==
    /\ prog = "Demo" /\ pc = "D229"
    /\ acc' = DvsAdvance(dvsPosition, acc, DT)
    /\ Goto(DemoBody("D229"))
    /\ UNCHANGED <<prog, time, classic, lerp, dvsPosition, rpPosition, vsPosition, alive, out>>
    /\ Idle

D232 ==
    /\ prog = "Demo" /\ pc = "D232"
    /\ lerp' = SetTime(lerp, time)
    /\ Goto(DemoBody("D232"))
    /\ UNCHANGED <<prog, time, classic, acc, dvsPosition, rpPosition, vsPosition, alive, out>>
    /\ Idle

D235 ==
    /\ prog = "Demo" /\ pc = "D235"
    /\ out' = ClassicRender(classic, out)
    /\ Goto(DemoBody("D235"))
    /\ UNCHANGED <<prog, time, classic, acc, lerp, dvsPosition, rpPosition, vsPosition, alive>>
    /\ Idle

D236 ==
    /\ prog = "Demo" /\ pc = "D236"
    /\ out' = DvsRender(dvsPosition, acc, lerp, out)
    /\ Goto(DemoBody("D236"))
    /\ UNCHANGED <<prog, time, classic, acc, lerp, dvsPosition, rpPosition, vsPosition, alive>>
    /\ Idle

D237 ==
    /\ prog = "Demo" /\ pc = "D237"
    /\ out' = RpRender(rpPosition, acc, lerp, out)
    /\ Goto(DemoBody("D237"))
    /\ UNCHANGED <<prog, time, classic, acc, lerp, dvsPosition, rpPosition, vsPosition, alive>>
    /\ Idle

D241 ==
    /\ prog = "Demo" /\ pc = "D241"
    /\ alive' = {}
    /\ Goto("done")
    /\ UNCHANGED <<prog, time, classic, acc, lerp, dvsPosition, rpPosition, vsPosition, out>>
    /\ Idle

(* main of ValueSourceDemo.cpp *)

Sources == AccIds \cup {LERP}

V65 ==
    /\ prog = "ValueSourceDemo" /\ pc = "V65"
    /\ \E garbage \in {NULL, WILD} : vsPosition' = garbage
    /\ alive' = alive \cup {"vsobject"}
    /\ Goto("V66")
    /\ UNCHANGED <<prog, time, classic, acc, lerp, dvsPosition, rpPosition, out>>
    /\ Idle

V66 ==
    /\ prog = "ValueSourceDemo" /\ pc = "V66"
    /\ lerp' = ValueSourceLinearInterpolator(One, Five)
    /\ alive' = alive \cup {LERP}
    /\ Goto("V67")
    /\ UNCHANGED <<prog, time, classic, acc, dvsPosition, rpPosition, vsPosition, out>>
    /\ Idle

V67 ==
    /\ prog = "ValueSourceDemo" /\ pc = "V67"
    /\ vsPosition' = VsAttachPositionValueSource(vsPosition, LERP)
    /\ Goto("V69")
    /\ UNCHANGED <<prog, time, classic, acc, lerp, dvsPosition, rpPosition, alive, out>>
    /\ Idle

V69 ==
    /\ prog = "ValueSourceDemo" /\ pc = "V69"
    /\ classic' = ClassicMovingObject(One, Four)
    /\ alive' = alive \cup {"classicobject"}
    /\ Goto("V72")
    /\ UNCHANGED <<prog, time, acc, lerp, dvsPosition, rpPosition, vsPosition, out>>
    /\ Idle

V72 ==
    /\ prog = "ValueSourceDemo" /\ pc = "V72"
    /\ time' = Zero
    /\ Goto("V73")
    /\ UNCHANGED <<prog, classic, acc, lerp, dvsPosition, rpPosition, vsPosition, alive, out>>
    /\ Idle

V73 ==
    /\ prog = "ValueSourceDemo" /\ pc = "V73"
    /\ Goto(IF LeF(time, One) THEN "V75" ELSE "V85")
    /\ UNCHANGED <<prog, time, classic, acc, lerp, dvsPosition, rpPosition, vsPosition,
                   alive, out>>
    /\ Idle

V75 ==
    /\ prog = "ValueSourceDemo" /\ pc = "V75"
    /\ time' = AddF(time, DT)
    /\ Goto("V77")
    /\ UNCHANGED <<prog, classic, acc, lerp, dvsPosition, rpPosition, vsPosition, alive, out>>
    /\ Idle

V77 ==
    /\ prog = "ValueSourceDemo" /\ pc = "V77"
    /\ lerp' = SetTime(lerp, time)
    /\ Goto("V78")
    /\ UNCHANGED <<prog, time, classic, acc, dvsPosition, rpPosition, vsPosition, alive, out>>
    /\ Idle

V78 ==
    /\ prog = "ValueSourceDemo" /\ pc = "V78"
    /\ classic' = ClassicAdvance(classic, DT)
    /\ Goto("V80")
    /\ UNCHANGED <<prog, time, acc, lerp, dvsPosition, rpPosition, vsPosition, alive, out>>
    /\ Idle

\* Render dereferences Position unchecked.  Through a pointer to no live
\* source the behaviour is undefined: the program stops, or prints anything.
V80 ==
    /\ prog = "ValueSourceDemo" /\ pc = "V80"
    /\ IF vsPosition \in Sources \cap alive
       THEN /\ out' = VsRender(vsPosition, acc, lerp, out)
            /\ Goto("V81")
       ELSE \E outcome \in {"crashed", "V81"} :
                /\ Goto(outcome)
                /\ out' = IF outcome = "crashed" THEN out
                          ELSE Append(out, [label |-> ValueLabel,
                                            text |-> Garbage])
    /\ UNCHANGED <<prog, time, classic, acc, lerp, dvsPosition, rpPosition, vsPosition, alive>>
    /\ Idle

V81 ==
    /\ prog = "ValueSourceDemo" /\ pc = "V81"
    /\ out' = ClassicRender(classic, out)
    /\ Goto("V73")
    /\ UNCHANGED <<prog, time, classic, acc, lerp, dvsPosition, rpPosition, vsPosition, alive>>
    /\ Idle

V85 ==
    /\ prog = "ValueSourceDemo" /\ pc = "V85"
    /\ alive' = {}
    /\ Goto("done")
    /\ UNCHANGED <<prog, time, classic, acc, lerp, dvsPosition, rpPosition, vsPosition, out>>
    /\ Idle

Init == MainInit

Next ==
    \/ D184 \/ D199 \/ D200 \/ D201 \/ D211 \/ D212 \/ D213 \/ D220
    \/ D221 \/ D224 \/ D225 \/ D228 \/ D229 \/ D232 \/ D235 \/ D236 \/ D237 \/ D241
    \/ V65 \/ V66 \/ V67 \/ V69 \/ V72
    \/ V73 \/ V75 \/ V77 \/ V78 \/ V80 \/ V81 \/ V85

Spec == Init /\ [][Next]_vars

\* A single thread runs main: a statement that can execute does.
FairSpec == Spec /\ WF_vars(Next)

---------------------------------------------------------------------------
(* The drivers' properties *)

Labelled(o, label) == SelectSeq(o, LAMBDA l : l.label = label)

\* How many times the body of the loop has run to its end.
Ticks == Len(Labelled(out, ClassicLabel))

\* C6: the driver loop terminates, and when it has, its body has run exactly
\* 10 times: never more than 10 ticks are printed, the finished program has
\* printed 10, and the last tick header of the combined demo reads 1.
C6_TenTicks ==
    /\ <>(pc = "done")
    /\ [](Ticks <= 10)
    /\ [](pc = "done" =>
            /\ Ticks = 10
            /\ prog = "Demo" =>
                 /\ Len(Labelled(out, TickLabel)) = 10
                 /\ Labelled(out, TickLabel)[10].text = Decimal(10))

C6_Witness ==
    /\ pc = "done" /\ prog = "Demo"
    /\ Len(Labelled(out, TickLabel)) = 10
    /\ GtF(time, One)

\* The values tick k has to show, computed from the driver's constants alone:
\* the clock after k increments, a position after k steps of velocity 4 from
\* 1, and the blend between 1 and 5 at the clamped clock.
RECURSIVE TimeAt(_)
TimeAt(k) == IF k = 0 THEN Zero ELSE AddF(TimeAt(k - 1), DT)

RECURSIVE PositionAt(_)
PositionAt(k) == IF k = 0 THEN One ELSE AddF(PositionAt(k - 1), MulF(Four, DT))

BlendAt(k) ==
    AddF(One, MulF(SubF(Five, One), IF TimeAt(k) > One THEN One ELSE TimeAt(k)))

DemoLabels == <<TickLabel, ClassicLabel, ValueLabel, ReactiveLabel>>

ShownAt(i) ==
    LET k == ((i - 1) \div 4) + 1
        j == ((i - 1) % 4) + 1
    IN  FormatFloat(CASE j = 1 -> TimeAt(k)
                      [] j = 2 -> PositionAt(k)
                      [] j = 3 -> PositionAt(k)
                      [] j = 4 -> BlendAt(k))

\* C7: every tick of the combined demo runs in the same order: clock and
\* header, Advance of the classic object, Advance of the dynamic consumer,
\* SetTime, then the three Renders; so the lines come out as header, classic,
\* value-source, reactive, and each line of tick k shows the state after k
\* advances and the clock of tick k.
C7_TickOrder ==
    prog = "Demo" =>
        LET k == Len(Labelled(out, TickLabel))
        IN  /\ \A i \in 1..Len(out) :
                  /\ out[i].label = DemoLabels[((i - 1) % 4) + 1]
                  /\ out[i].text = ShownAt(i)
            /\ pc = "D225" => time = TimeAt(k + 1)
            /\ pc = "D228" => /\ time = TimeAt(k)
                              /\ classic.Position = PositionAt(k - 1)
                              /\ acc[MOVEMENT].Value = PositionAt(k - 1)
            /\ pc = "D229" => /\ classic.Position = PositionAt(k)
                              /\ acc[MOVEMENT].Value = PositionAt(k - 1)
            /\ pc = "D232" => /\ acc[MOVEMENT].Value = PositionAt(k)
                              /\ lerp.Value = BlendAt(k - 1)
            /\ pc \in {"D235", "D236", "D237"} =>
                  /\ time = TimeAt(k)
                  /\ classic.Position = PositionAt(k)
                  /\ acc[MOVEMENT].Value = PositionAt(k)
                  /\ lerp.Value = BlendAt(k)
                  /\ Len(out) = 4 * (k - 1) + (CASE pc = "D235" -> 1
                                                 [] pc = "D236" -> 2
                                                 [] pc = "D237" -> 3)

C7_Witness ==
    /\ prog = "Demo" /\ pc = "D237"
    /\ Len(out) = 15
    /\ out[14].text = FormatFloat(PositionAt(4))
    /\ out[14].text # FormatFloat(PositionAt(3))

\* C9: in the combined demo the classic object, the accumulator-driven
\* consumer and the interpolator-driven consumer print the same position on
\* every tick, 1 + 4 * (the printed time); when they are rendered the classic
\* position and the accumulator's value are the same float; and the
\* interpolator's value never exceeds 5.
C9_SamePosition ==
    prog = "Demo" =>
        /\ \A k \in 1..Len(Labelled(out, TickLabel)) :
               Labelled(out, TickLabel)[k].text = Decimal(k)
        /\ \A k \in 1..Len(Labelled(out, ClassicLabel)) :
               Labelled(out, ClassicLabel)[k].text = Decimal(10 + 4 * k)
        /\ \A k \in 1..Len(Labelled(out, ValueLabel)) :
               Labelled(out, ValueLabel)[k].text = Decimal(10 + 4 * k)
        /\ \A k \in 1..Len(Labelled(out, ReactiveLabel)) :
               Labelled(out, ReactiveLabel)[k].text = Decimal(10 + 4 * k)
        /\ pc \in {"D235", "D236", "D237"} => classic.Position = acc[MOVEMENT].Value
        /\ LERP \in alive => LeF(lerp.Value, Five)

C9_Witness ==
    /\ prog = "Demo"
    /\ Len(Labelled(out, ReactiveLabel)) = 10
    /\ out[Len(out)].text = Decimal(50)
    /\ out[Len(out) - 1].text = Decimal(50)
    /\ GtF(acc[MOVEMENT].Value, Five)
    /\ lerp.Value = Five
    /\ GtF(time, One)

\* C10: neither driver ever uses a consumer whose Position is not the address
\* of a live source: at every Advance and Render of a consumer, and through the
\* whole loop, the pointer set by AttachPositionValueSource names a source
\* whose lifetime has not ended.  ValueSourceDemo::MovingObject, whose
\* Position starts indeterminate and is dereferenced unchecked, included.
C10_SourceAttached ==
    /\ pc # "crashed"
    /\ pc \in {"D221", "D224", "D225", "D228", "D229", "D232", "D235", "D236", "D237"} =>
          /\ dvsPosition \in AccIds \cap alive
          /\ rpPosition \in Sources \cap alive
    /\ pc \in {"V73", "V75", "V77", "V78", "V80", "V81"} =>
          vsPosition \in Sources \cap alive
    /\ \A i \in 1..Len(out) : out[i].text # Garbage

C10_Witness ==
    /\ prog = "ValueSourceDemo" /\ pc = "V80"
    /\ vsPosition = LERP /\ LERP \in alive
    /\ Ticks = 3

---------------------------------------------------------------------------
(* A client of one ValueSourceLinearInterpolator: it constructs the object *)
(* and calls SetTime with any argument, any number of times.               *)

MaxSetTime == 3

Half == Unit \div 2

ThreeTenths == AddF(AddF(DT, DT), DT)

LerpEnds == {0 - 8 * Unit, DT, One, Five}

Fractions == {0 - One, Zero, ThreeTenths, Half, One, One + Half, NaN}

LerpInit ==
    /\ prog = "LerpClient" /\ pc = "client"
    /\ \E min \in LerpEnds, max \in LerpEnds :
          /\ lerp = ValueSourceLinearInterpolator(min, max)
          /\ hist = [min |-> min, max |-> max]
    /\ alive = {LERP}
    /\ time = NaN /\ classic = Unbuilt /\ acc = NoAccs
    /\ dvsPosition = NONE /\ rpPosition = NONE /\ vsPosition = NONE
    /\ out = <<>>
    /\ calls = 0
    /\ last = [op |-> "new"]

LerpSetTime ==
    /\ calls < MaxSetTime
    /\ \E t \in Fractions :
          /\ lerp' = SetTime(lerp, t)
          /\ last' = [op |-> "SetTime", t |-> t]
    /\ calls' = calls + 1
    /\ UNCHANGED <<pc, prog, time, classic, acc, dvsPosition, rpPosition, vsPosition,
                   alive, out, hist>>

LerpNext == LerpSetTime

LerpSpec == LerpInit /\ [][LerpNext]_vars

\* C1: after SetTime(t), GetCurrentValue() is min when t <= 0, max when
\* t >= 1 and min + (max - min) * t otherwise, whatever was set before.
C1_AsClaimed ==
    last.op = "SetTime" =>
        LerpGetCurrentValue(lerp) =
            IF LeF(last.t, Zero) THEN hist.min
            ELSE IF LeF(One, last.t) THEN hist.max
            ELSE AddF(hist.min, MulF(SubF(hist.max, hist.min), last.t))

\* C2: the stored Time is in [0, 1], the stored Value is
\* Min + (Max - Min) * Time, and Min and Max are those of the constructor.
C2_AsClaimed ==
    /\ LeF(Zero, lerp.Time) /\ LeF(lerp.Time, One)
    /\ lerp.Value = AddF(lerp.Min, MulF(SubF(lerp.Max, lerp.Min), lerp.Time))
    /\ lerp.Min = hist.min /\ lerp.Max = hist.max

---------------------------------------------------------------------------
(* A client of one ValueSourceLinearAccumulator: it constructs the object  *)
(* and calls Advance with finite deltas, zero and negative ones included.  *)

MaxAdvance == 10

Starts == {Zero, One}

Rates == {Four, 3 * Unit, 0 - 2 * Unit}

Deltas == {Zero, DT, 0 - DT, Unit \div 4}

AccInit ==
    /\ prog = "AccClient" /\ pc = "client"
    /\ \E start \in Starts, rate \in Rates :
          /\ acc = [NoAccs EXCEPT ![MOVEMENT] = ValueSourceLinearAccumulator(start, rate)]
          /\ hist = [start |-> start, total |-> 0]
    /\ alive = {MOVEMENT}
    /\ time = NaN /\ classic = Unbuilt /\ lerp = Unbuilt
    /\ dvsPosition = NONE /\ rpPosition = NONE /\ vsPosition = NONE
    /\ out = <<>>
    /\ calls = 0
    /\ last = [op |-> "new"]

AccClientAdvance ==
    /\ calls < MaxAdvance
    /\ \E dt \in Deltas :
          /\ acc' = [acc EXCEPT ![MOVEMENT] = AccAdvance(@, dt)]
          /\ hist' = [hist EXCEPT !.total = @ + dt]
          /\ last' = [op |-> "Advance", dt |-> dt]
    /\ calls' = calls + 1
    /\ UNCHANGED <<pc, prog, time, classic, lerp, dvsPosition, rpPosition, vsPosition,
                   alive, out>>

AccNext == AccClientAdvance

AccSpec == AccInit /\ [][AccNext]_vars

\* rate * (d1 + ... + dn): its whole part in units of 2^-27, and whether it
\* is that whole part exactly.
RateTimesTotal ==
    LET rate == acc[MOVEMENT].Velocity
        p == MulParts(Abs(rate), Abs(hist.total))
    IN  [whole |-> IF (rate < 0) = (hist.total < 0) THEN p[1] ELSE 0 - p[1],
         exact |-> p[2] = 0]

\* Two roundings an Advance: the product's and the sum's, each at most half
\* the distance between neighbouring floats, which is 2^-20 below 16.
UlpBelow16 == 2^7

\* C3 as claimed: after Advance(d1) ... Advance(dn) the value is exactly
\* start + rate * (d1 + ... + dn).
C3_AsClaimed ==
    /\ RateTimesTotal.exact
    /\ AccGetCurrentValue(acc[MOVEMENT]) = hist.start + RateTimesTotal.whole

\* C3 as amended: the value is start + rate * (d1 + ... + dn) to within
\* n * 2^-20, and the accumulator (1, 4) advanced k times by 0.1f prints as
\* 1 + 0.4 * k, so as 5 after ten.  (A total of k * 0.1f after k calls is k
\* deltas of 0.1f: no other k of the deltas add up to it.)
C3_WithinRounding ==
    /\ Abs(AccGetCurrentValue(acc[MOVEMENT]) - (hist.start + RateTimesTotal.whole))
          <= calls * UlpBelow16 + 1
    /\ (hist.start = One /\ acc[MOVEMENT].Velocity = Four /\ hist.total = calls * DT
          /\ calls >= 1)
          => FormatFloat(AccGetCurrentValue(acc[MOVEMENT])) = Decimal(10 + 4 * calls)

C3_Witness ==
    /\ calls = 10
    /\ hist.start = One /\ acc[MOVEMENT].Velocity = Four /\ hist.total = 10 * DT
    /\ AccGetCurrentValue(acc[MOVEMENT]) = Five + 2^6
    /\ FormatFloat(AccGetCurrentValue(acc[MOVEMENT])) = Decimal(50)

---------------------------------------------------------------------------
(* A client of the consumers: two accumulators and an interpolator are     *)
(* alive; it attaches them to the dynamic and the reactive consumer,       *)
(* advances, sets the time and renders, in any order.                      *)

MaxCalls == 5

ObjAccs ==
    [a \in AccIds |-> IF a = MOVEMENT THEN ValueSourceLinearAccumulator(One, Four)
                      ELSE ValueSourceLinearAccumulator(Zero, 3 * Unit)]

ObjDeltas == {DT, 0 - Unit \div 4}

ObjInit ==
    /\ prog = "ObjClient" /\ pc = "client"
    /\ acc = ObjAccs
    /\ lerp = ValueSourceLinearInterpolator(One, Five)
    /\ dvsPosition = NULL
    /\ rpPosition = NULL
    /\ alive = Sources \cup {"dvsobject", "rpobject"}
    /\ time = NaN /\ classic = Unbuilt /\ vsPosition = NONE
    /\ out = <<>>
    /\ calls = 0
    /\ last = [op |-> "new"]
    /\ hist = {}

Called(op) ==
    /\ calls < MaxCalls
    /\ calls' = calls + 1
    /\ hist' = hist \cup {op}
    /\ UNCHANGED <<pc, prog, time, classic, vsPosition, alive>>

ObjDvsAttach ==
    /\ Called("DvsAttach")
    /\ \E position \in AccIds \cup {NULL} :
          /\ dvsPosition' = DvsAttachPositionValueSource(dvsPosition, position)
          /\ last' = [op |-> "DvsAttach", prev |-> dvsPosition, position |-> position]
    /\ UNCHANGED <<acc, lerp, rpPosition, out>>

ObjRpAttach ==
    /\ Called("RpAttach")
    /\ \E position \in Sources \cup {NULL} :
          /\ rpPosition' = RpAttachPositionValueSource(rpPosition, position)
          /\ last' = [op |-> "RpAttach", prev |-> rpPosition, position |-> position]
    /\ UNCHANGED <<acc, lerp, dvsPosition, out>>

ObjDvsAdvance ==
    /\ Called("DvsAdvance")
    /\ \E dt \in ObjDeltas :
          /\ acc' = DvsAdvance(dvsPosition, acc, dt)
          /\ last' = [op |-> "DvsAdvance", dt |-> dt]
    /\ UNCHANGED <<lerp, dvsPosition, rpPosition, out>>

ObjDvsRender ==
    /\ Called("DvsRender")
    /\ out' = DvsRender(dvsPosition, acc, lerp, out)
    /\ last' = [op |-> "DvsRender"]
    /\ UNCHANGED <<acc, lerp, dvsPosition, rpPosition>>

ObjRpRender ==
    /\ Called("RpRender")
    /\ out' = RpRender(rpPosition, acc, lerp, out)
    /\ last' = [op |-> "RpRender"]
    /\ UNCHANGED <<acc, lerp, dvsPosition, rpPosition>>

ObjSetTime ==
    /\ Called("SetTime")
    /\ \E t \in {Half, One + Half} :
          /\ lerp' = SetTime(lerp, t)
          /\ last' = [op |-> "SetTime", t |-> t]
    /\ UNCHANGED <<acc, dvsPosition, rpPosition, out>>

ObjNext ==
    \/ ObjDvsAttach \/ ObjRpAttach \/ ObjDvsAdvance
    \/ ObjDvsRender \/ ObjRpRender \/ ObjSetTime

ObjSpec == ObjInit /\ [][ObjNext]_vars

\* C4: while the dynamic consumer has had no source attached, its Advance
\* and Render do nothing: the program goes on, every source is as it was
\* constructed, and no line of this consumer is in the output.
C4_UnattachedIsNoOp ==
    "DvsAttach" \notin hist =>
        /\ pc = "client"
        /\ dvsPosition = NULL
        /\ acc = ObjAccs
        /\ Labelled(out, ValueLabel) = <<>>
        /\ \A i \in 1..Len(out) : out[i].label = ReactiveLabel

C4_Witness ==
    /\ "DvsAttach" \notin hist
    /\ {"DvsAdvance", "DvsRender", "RpAttach", "RpRender"} \subseteq hist
    /\ last.op = "DvsRender"
    /\ Len(out) = 1

\* C5: AttachPositionValueSource stores the new source and touches no
\* source, the one replaced and the new one included; the Render that
\* follows prints the current value of the source attached last.
C5_RenderFollowsAttach ==
    /\ [](/\ last.op = "DvsAttach" => dvsPosition = last.position
          /\ last.op = "RpAttach" => rpPosition = last.position
          /\ (last.op = "DvsRender" /\ dvsPosition # NULL) =>
                out[Len(out)] = [label |-> ValueLabel,
                                 text |-> FormatFloat(acc[dvsPosition].Value)]
          /\ (last.op = "RpRender" /\ rpPosition # NULL) =>
                out[Len(out)] =
                    [label |-> ReactiveLabel,
                     text |-> FormatFloat(IF rpPosition = LERP THEN lerp.Value
                                          ELSE acc[rpPosition].Value)])
    /\ [][(calls' = calls + 1 /\ last'.op \in {"DvsAttach", "RpAttach"}) =>
              UNCHANGED <<acc, lerp, alive, out>>]_vars

C5_Witness ==
    /\ last.op = "DvsRender"
    /\ dvsPosition = "movement2"
    /\ Len(out) = 2
    /\ out[1] = [label |-> ValueLabel, text |-> FormatFloat(acc[MOVEMENT].Value)]
    /\ out[2] = [label |-> ValueLabel, text |-> FormatFloat(acc["movement2"].Value)]
    /\ out[1] # out[2]
    /\ acc = ObjAccs

\* C8: Advance(dt) of the dynamic consumer with source s attached advances s
\* once by dt (its value becomes value + rate * dt, its rate stays) and
\* changes nothing else; the Renders change no object and no source.
C8_AdvanceForwardsOnce ==
    [][/\ (calls' = calls + 1 /\ last'.op = "DvsAdvance" /\ dvsPosition \in AccIds) =>
            /\ acc'[dvsPosition].Value =
                   AddF(acc[dvsPosition].Value, MulF(acc[dvsPosition].Velocity, last'.dt))
            /\ acc'[dvsPosition].Velocity = acc[dvsPosition].Velocity
            /\ \A a \in AccIds \ {dvsPosition} : acc'[a] = acc[a]
            /\ UNCHANGED <<lerp, dvsPosition, rpPosition, alive, out>>
       /\ (calls' = calls + 1 /\ last'.op \in {"DvsRender", "RpRender"}) =>
            UNCHANGED <<acc, lerp, dvsPosition, rpPosition, alive>>]_vars

C8_Witness ==
    /\ last.op = "DvsAdvance"
    /\ dvsPosition = MOVEMENT
    /\ acc[MOVEMENT] = [Value |-> AddF(One, MulF(Four, last.dt)), Velocity |-> Four]
    /\ acc[MOVEMENT].Value # One
    /\ acc["movement2"] = ObjAccs["movement2"]

===========================================================================
